---- MODULE Spec2Model ----
(***************************************************************************)
(* A model of export_spec_info.py (class SpecExporter): the translation    *)
(* cache (translate_text, batch_translate, _load_cache, _save_cache), the  *)
(* spec lookup with its memo (load_spec_data) and the batch export         *)
(* (export_all_specs, export_spec_info, export_index_html).                *)
(*                                                                         *)
(* Three specifications share the variables:                               *)
(*   Spec         the translation cache, its file and process interruption *)
(*   SpecCatalog  the catalog document and the lookup memo                 *)
(*   SpecExport   one export_all_specs run over a catalog document         *)
(***************************************************************************)
EXTENDS Integers, Sequences, FiniteSets, TLC

VARIABLES
    cache,      \* self.cache: the in-memory translation cache, key -> translated
    file,       \* translation_cache.json on disk: [state, data]
    crashed,    \* TRUE once the process has been interrupted
    last,       \* observation of the most recent translate_text call
    batch,      \* the batch_translate call in progress: its list and the results so far
    committed,  \* history: <<key, value>> pairs a completed translate_text call wrote to the file
    produced,   \* history: <<text, dest_lang, value>> answers the provider gave
    doc,        \* the catalog document on disk (self.data_path)
    memo,       \* self.spec_data_cache: spec_id -> flat record
    lookup,     \* observation of the load_spec_data call just made (cleared when the document changes)
    run         \* the export_all_specs call: position, collected specs, outcome

vars == <<cache, file, crashed, last, batch, committed, produced, doc, memo, lookup, run>>
transVars == <<cache, file, crashed, last, batch, committed, produced>>
catVars == <<doc, memo, lookup, run>>

----------------------------------------------------------------------------
(* Bounds of the model *)

\* largest max_retries passed explicitly to translate_text
MaxRetries == 2
\* longest list passed to batch_translate
MaxBatch == 2

(* Program constants *)

\* translate_text(..., max_retries: int = 3, ...)
DefaultMaxRetries == 3

----------------------------------------------------------------------------
(* Values *)

\* source texts: empty, the sentinel, and two texts whose keys can collide
Texts == {"", "N/A", "a", "a_b"}
\* destination languages
Langs == {"pl", "b_pl"}
\* what the provider's result.text can be
Translations == {"x", "y"}
\* the provider call raised
Fail == "<error>"
ProviderResults == Translations \cup {Fail}
\* Python's None (a function that falls off its end)
NoneVal == "<None>"

\* how one _save_cache call goes: the write succeeds, open() raises before
\* the file is touched, or json.dump raises after open(.., 'w') truncated it
DiskOutcomes == {"ok", "open_fails", "write_fails"}

EmptyMap == [k \in {} |-> ""]

Put(m, k, v) == [x \in (DOMAIN m) \cup {k} |-> IF x = k THEN v ELSE m[x]]

\* the entries of a mapping as a set of pairs
Entries(m) == {<<k, m[k]>> : k \in DOMAIN m}

\* file states: no file, a file that is not valid JSON, a valid JSON mapping
MissingFile == [state |-> "missing", data |-> EmptyMap]
Truncated == [state |-> "corrupt", data |-> EmptyMap]
ValidFile(m) == [state |-> "valid", data |-> m]

----------------------------------------------------------------------------
(* The translation cache *)

\* _load_cache: the file's mapping if it exists and parses, else {}
LoadCache(f) == IF f.state = "valid" THEN f.data ELSE EmptyMap

\* _save_cache: open(cache_file, 'w') truncates, json.dump writes the whole
\* cache; every Exception is caught and printed
SaveCache(c, f, disk) ==
    CASE disk = "ok" -> ValidFile(c)
      [] disk = "open_fails" -> f
      [] disk = "write_fails" -> Truncated

\* cache_key = f"{text}_{dest_lang}"
CacheKey(text, dest_lang) == text \o "_" \o dest_lang

\* variant: only the empty text is passed through
IsSentinelEmptyOnly(text) == text = ""

\* if not text or text == 'N/A'
IsSentinel(text) == text = "" \/ text = "N/A"

\* variant: the cache is never consulted
CacheHitNever(c, key) == FALSE

\* if cache_key in self.cache
CacheHit(c, key) == key \in DOMAIN c

\* what a translate_text call did: its result and the state it leaves
Outcome(ret, c, f, calls, failures, writes, disk) ==
    [ret |-> ret, cache |-> c, file |-> f, calls |-> calls,
     failures |-> failures, writes |-> writes, disk |-> disk]

\* variant: the translation is returned but not stored
SucceedNoStore(c, f, key, translated, attempt, disk) ==
    Outcome(translated, c, SaveCache(c, f, disk), attempt + 1, attempt, 1, disk)

\* variant: the cache is saved before the new entry is stored
SucceedSaveFirst(c, f, key, translated, attempt, disk) ==
    Outcome(translated, Put(c, key, translated), SaveCache(c, f, disk),
            attempt + 1, attempt, 1, disk)

\* the body of one successful attempt: store, save, return
Succeed(c, f, key, translated, attempt, disk) ==
    LET c2 == Put(c, key, translated)
    IN  Outcome(translated, c2, SaveCache(c2, f, disk), attempt + 1, attempt, 1, disk)

\* variant: the last except falls through without `return text`
GiveUpReturnsNone(c, f, text, attempt) ==
    Outcome(NoneVal, c, f, attempt + 1, attempt + 1, 0, "none")

\* the except branch of the last attempt: return the original text
GiveUp(c, f, text, attempt) ==
    Outcome(text, c, f, attempt + 1, attempt + 1, 0, "none")

\* for attempt in range(max_retries): ..., from iteration `attempt` on;
\* results[attempt + 1] is what the provider does on that call
RECURSIVE RetryLoop(_, _, _, _, _, _, _, _)
RetryLoop(c, f, text, key, max_retries, attempt, results, disk) ==
    IF attempt >= max_retries
    THEN Outcome(NoneVal, c, f, attempt, attempt, 0, "none")
    ELSE IF results[attempt + 1] # Fail
         THEN Succeed(c, f, key, results[attempt + 1], attempt, disk)
         ELSE IF attempt = max_retries - 1
              THEN GiveUp(c, f, text, attempt)
              ELSE RetryLoop(c, f, text, key, max_retries, attempt + 1, results, disk)

\* translate_text(text, dest_lang, max_retries)
TranslateText(c, f, text, dest_lang, max_retries, results, disk) ==
    IF IsSentinel(text)
    THEN Outcome(text, c, f, 0, 0, 0, "none")
    ELSE LET key == CacheKey(text, dest_lang)
         IN  IF CacheHit(c, key)
             THEN Outcome(c[key], c, f, 0, 0, 0, "none")
             ELSE RetryLoop(c, f, text, key, max_retries, 0, results, disk)

\* the observation of a translate_text call
Observe(text, dest_lang, max_retries, o) ==
    [op |-> "translate_text", text |-> text, dest_lang |-> dest_lang,
     max_retries |-> max_retries, ret |-> o.ret, calls |-> o.calls,
     failures |-> o.failures, writes |-> o.writes, disk |-> o.disk]

NoCall ==
    [op |-> "none", text |-> "", dest_lang |-> "", max_retries |-> 0,
     ret |-> "", calls |-> 0, failures |-> 0, writes |-> 0, disk |-> "none"]

\* the pairs a completed call has persisted
Commit(o) ==
    IF o.writes = 1 /\ o.disk = "ok" THEN committed \cup Entries(o.cache) ELSE committed

\* the answers translator.translate gave during a call that invoked it
\* o.calls times: results[i].text for the invocations that did not raise
Produce(text, dest_lang, results, o) ==
    produced \cup {<<text, dest_lang, results[i]>> :
                     i \in {j \in 1..o.calls : results[j] # Fail}}

IdleBatch ==
    [pc |-> "idle", texts |-> <<>>, dest_lang |-> "", out |-> <<>>, exhausted |-> <<>>]

----------------------------------------------------------------------------
(* batch_translate: [self.translate_text(text, dest_lang) for text in texts] *)

\* the lists batch_translate is given
RECURSIVE SeqsUpTo(_, _)
SeqsUpTo(S, n) ==
    IF n = 0 THEN {<<>>}
    ELSE LET shorter == SeqsUpTo(S, n - 1)
         IN  shorter \cup {Append(q, x) : q \in {r \in shorter : Len(r) = n - 1}, x \in S}

\* the element the comprehension handles next (1-based)
BatchIndex(b) == Len(b.out) + 1

\* variant: results are collected in reverse
BatchCollectPrepend(out, ret) == <<ret>> \o out

\* the comprehension appends each result to the list it builds
BatchCollect(out, ret) == Append(out, ret)

\* the comprehension is over when every element has been handled
BatchDone(b) == Len(b.out) = Len(b.texts)

----------------------------------------------------------------------------
(* Interruption of the process inside translate_text *)

\* where a kill (or KeyboardInterrupt, which `except Exception` does not catch)
\* lands in a call that found no cache entry:
\*   provider  in translator.translate or time.sleep      (lines 103-104)
\*   inserted  after self.cache[cache_key] = translated   (line 106)
\*   opened    in _save_cache after open(.., 'w')         (lines 33-34)
\*   written   after json.dump, before the return         (line 108)
InterruptPoints == {"provider", "inserted", "opened", "written"}

InFlightCache(c, key, translated, point) ==
    IF point = "provider" THEN c ELSE Put(c, key, translated)

InFlightFile(c, f, key, translated, point) ==
    CASE point \in {"provider", "inserted"} -> f
      [] point = "opened" -> Truncated
      [] point = "written" -> ValidFile(Put(c, key, translated))

----------------------------------------------------------------------------
(* The environment of one translate_text call *)

\* The provider's behaviour during one call, results[i] for its i-th
\* invocation: any mix of failures and answers.  The loop stops at the first
\* answer, so the behaviours listed are told apart by what precedes it: the
\* provider fails some number of times and then answers (or never does).  A
\* call that never reaches the provider (sentinel text, cache hit) is listed
\* with the one behaviour "always fails", which it does not consult.
AlwaysFails(max_retries) == [i \in 1..max_retries |-> Fail]

ProviderRuns(c, text, dest_lang, max_retries) ==
    IF IsSentinel(text) \/ CacheHit(c, CacheKey(text, dest_lang))
    THEN {AlwaysFails(max_retries)}
    ELSE {results \in [1..max_retries -> ProviderResults] :
            \A i, j \in 1..max_retries :
               (i < j /\ results[i] # Fail) => results[j] = results[i]}

\* how the write goes, listed only for a call that reaches _save_cache
DiskRuns(results) ==
    IF \E i \in DOMAIN results : results[i] # Fail THEN DiskOutcomes ELSE {"ok"}

----------------------------------------------------------------------------
(* The catalog document: brand -> series -> model, in document order *)

\* most entries (brands, series and models together) of a catalog document,
\* for the export and for the lookup
MaxEntries == 5
MaxLookupEntries == 4

\* a JSON integer, a JSON string, and the None that dict.get returns for a
\* missing key
JInt(n) == [type |-> "int", n |-> n, s |-> ""]
JStr(s) == [type |-> "str", n |-> 0, s |-> s]
JNone == [type |-> "none", n |-> 0, s |-> ""]

\* the spec_id values of the documents: two numbers, and a string that reads
\* like the first
IdValues == {JInt(1), JInt(2), JStr("1")}

Digit == <<"0", "1", "2", "3", "4", "5", "6", "7", "8", "9">>

\* str() of a natural number
RECURSIVE StrNat(_)
StrNat(n) == IF n < 10 THEN Digit[n + 1] ELSE StrNat(n \div 10) \o Digit[(n % 10) + 1]

\* str(model_data.get('spec_id'))
PyStr(v) ==
    CASE v.type = "int" -> StrNat(v.n)
      [] v.type = "str" -> v.s
      [] v.type = "none" -> "None"

\* the spec ids callers ask for
QueryIds == {"1", "2"}

\* An entry's value is a JSON object ("dict") or any other JSON value
\* ("scalar"); a series may also be an object without a 'models' key
\* ("nokey").  A brand object without a 'series' key is walked like one
\* whose 'series' is empty, and is written as that.  Names are the keys of
\* the enclosing object, distinct by position.
BrandKinds == {"dict", "scalar"}
SeriesKinds == {"dict", "nokey", "scalar"}
Brand(i, kind) == [name |-> "B" \o StrNat(i), kind |-> kind, series |-> <<>>]
Series(i, kind) == [name |-> "S" \o StrNat(i), kind |-> kind, models |-> <<>>]
Model(i, kind, id) == [name |-> "m" \o StrNat(i), kind |-> kind, spec_id |-> id]

RECURSIVE SumSeq(_)
SumSeq(q) == IF q = <<>> THEN 0 ELSE Head(q) + SumSeq(Tail(q))

\* the number of entries of a document
EntryCount(brands) ==
    SumSeq([b \in 1..Len(brands) |->
              1 + SumSeq([k \in 1..Len(brands[b].series) |->
                            1 + Len(brands[b].series[k].models)])])

RECURSIVE Concat(_)
Concat(qs) == IF qs = <<>> THEN <<>> ELSE Head(qs) \o Concat(Tail(qs))

IsDict(kind) == kind = "dict"

\* for series_name, series_data in brand_data['series'].items(), for every
\* brand that is a dict with a 'series' key, brands in document order
SeriesWalk(brands) ==
    Concat([b \in 1..Len(brands) |->
              IF IsDict(brands[b].kind)
              THEN [k \in 1..Len(brands[b].series) |->
                      [brandName |-> brands[b].name, series |-> brands[b].series[k]]]
              ELSE <<>>])

\* for model_name, model_data in series_data['models'].items(), for every
\* series that is a dict with a 'models' key
ModelWalk(brands) ==
    LET sw == SeriesWalk(brands)
    IN  Concat([k \in 1..Len(sw) |->
                  IF IsDict(sw[k].series.kind)
                  THEN [j \in 1..Len(sw[k].series.models) |->
                          [brandName |-> sw[k].brandName,
                           seriesName |-> sw[k].series.name,
                           model |-> sw[k].series.models[j]]]
                  ELSE <<>>])

\* the models that are dicts, in traversal order
DictModels(brands) == SelectSeq(ModelWalk(brands), LAMBDA c : IsDict(c.model.kind))

----------------------------------------------------------------------------
(* load_spec_data: the lookup of one spec, memoized in self.spec_data_cache *)

\* the flat record built for a matching model (specId, specName, brandName,
\* seriesName; the other fields do not bear on the lookup)
FlatSpec(c) ==
    [specId |-> c.model.spec_id, specName |-> c.model.name,
     brandName |-> c.brandName, seriesName |-> c.seriesName]

NoSpec == [specId |-> JNone, specName |-> "", brandName |-> "", seriesName |-> ""]

\* if str(model_data.get('spec_id')) == spec_id
Matches(c, spec_id) == PyStr(c.model.spec_id) = spec_id

\* variant: the memo is never consulted
MemoHitNever(m, spec_id) == FALSE

\* if spec_id in self.spec_data_cache
MemoHit(m, spec_id) == spec_id \in DOMAIN m

\* self.spec_data_cache[spec_id] = spec_data
Memoize(m, spec_id, spec_data) == Put(m, spec_id, spec_data)

Looked(found, ret, m, reads) == [found |-> found, ret |-> ret, memo |-> m, reads |-> reads]

\* load_spec_data(spec_id) with memo m and the document d on disk
LoadSpecData(m, d, spec_id) ==
    IF MemoHit(m, spec_id)
    THEN Looked(TRUE, m[spec_id], m, 0)
    ELSE IF ~d.readable
         THEN Looked(FALSE, NoSpec, m, 1)
         ELSE LET hits == SelectSeq(DictModels(d.brands), LAMBDA c : Matches(c, spec_id))
              IN  IF hits = <<>>
                  THEN Looked(FALSE, NoSpec, m, 1)
                  ELSE Looked(TRUE, FlatSpec(Head(hits)),
                              Memoize(m, spec_id, FlatSpec(Head(hits))), 1)

ObserveLookup(spec_id, l) ==
    [op |-> "load_spec_data", spec_id |-> spec_id, found |-> l.found,
     ret |-> l.ret, reads |-> l.reads]

----------------------------------------------------------------------------
(* export_spec_info and export_all_specs *)

\* how the translation block of export_spec_info ends (its try either
\* completes or an exception is caught and the function returns), and how
\* writing files goes (os.makedirs, open and write are outside any try)
TranslationOutcomes == {"ok", "raises"}
OutputOutcomes == {"ok", "fails"}

\* export_spec_info(spec_id): "no_data" and "translation_error" return
\* early, "written" writes the page, "raised" lets the OSError propagate
ExportSpecInfo(m, d, spec_id, translation, output) ==
    LET l == LoadSpecData(m, d, spec_id)
        result == IF ~l.found THEN "no_data"
                  ELSE IF translation = "raises" THEN "translation_error"
                  ELSE IF output = "fails" THEN "raised"
                  ELSE "written"
    IN  [memo |-> l.memo, lookup |-> ObserveLookup(spec_id, l), result |-> result]

\* the loop variables model_name, model_data of export_all_specs
Unbound == [bound |-> FALSE, model_name |-> "", model_data |-> Model(0, "scalar", JNone)]

\* for model_name, model_data in series_data['models'].items():
\*     if not isinstance(model_data, dict): continue
\* the body does nothing more, so the loop only leaves its variables at the
\* last entry (where they were, when there is no entry)
ModelLoop(models, lv) ==
    IF models = <<>> THEN lv
    ELSE [bound |-> TRUE, model_name |-> models[Len(models)].name,
          model_data |-> models[Len(models)]]

\* the summary appended to specs
Summary(spec_id, model_name, brand_name, series_name) ==
    [specId |-> spec_id, specName |-> model_name,
     brandName |-> brand_name, seriesName |-> series_name]

IdleRun ==
    [pc |-> "idle", data |-> <<>>, work |-> <<>>, i |-> 1, lv |-> Unbound,
     specs |-> <<>>, exports |-> <<>>, pages |-> <<>>, failed |-> <<>>,
     index |-> FALSE, error |-> "none"]

\* the except of export_all_specs: the walk stops, no index page
Abort(r, why) == [r EXCEPT !.pc = "done", !.error = why]

\* One pass of the series loop of export_all_specs, for the entry at r.i:
\* the model loop, then (at the model loop's indentation, after it)
\* spec_id = str(model_data.get('spec_id')), the summary and the export.
\* The exceptions the except of export_all_specs catches here:
\*   "unbound"   model_data was never assigned (UnboundLocalError)
\*   "not_dict"  model_data.get on a value that is no dict (AttributeError)
\*   "output"    export_spec_info failed to write its files (OSError)
SeriesPass(r, m, d, translation, output) ==
    LET entry == r.work[r.i]
        sr == entry.series
        lv == ModelLoop(sr.models, r.lv)
        spec_id == PyStr(lv.model_data.spec_id)
        e == ExportSpecInfo(m, d, spec_id, translation, output)
        keep == [memo |-> m, lookup |-> lookup]
    IN  IF ~IsDict(sr.kind)
        THEN keep @@ [run |-> [r EXCEPT !.i = @ + 1]]
        ELSE IF ~lv.bound
        THEN keep @@ [run |-> Abort([r EXCEPT !.lv = lv], "unbound")]
        ELSE IF ~IsDict(lv.model_data.kind)
        THEN keep @@ [run |-> Abort([r EXCEPT !.lv = lv], "not_dict")]
        ELSE IF spec_id = ""
        THEN keep @@ [run |-> [r EXCEPT !.i = @ + 1, !.lv = lv]]
        ELSE LET r2 == [r EXCEPT
                          !.lv = lv,
                          !.specs = Append(@, Summary(spec_id, lv.model_name,
                                                      entry.brandName, sr.name)),
                          !.exports = Append(@, spec_id),
                          !.pages = IF e.result = "written" THEN Append(@, spec_id) ELSE @,
                          !.failed = IF e.result # "written" THEN Append(@, spec_id) ELSE @]
             IN  [memo |-> e.memo, lookup |-> e.lookup,
                  run |-> IF e.result = "raised" THEN Abort(r2, "output")
                          ELSE [r2 EXCEPT !.i = @ + 1]]

\* what the claim of one summary and one export per model expects
ExpectedSpecs(brands) ==
    LET dm == DictModels(brands)
    IN  [k \in 1..Len(dm) |->
           Summary(PyStr(dm[k].model.spec_id), dm[k].model.name,
                   dm[k].brandName, dm[k].seriesName)]

----------------------------------------------------------------------------
(* Initial states *)

\* the cache file found at start-up
InitFiles ==
    {MissingFile, Truncated, ValidFile(EmptyMap),
     ValidFile(Put(EmptyMap, CacheKey("a", "pl"), "x"))}

\* the answers behind the entries found at start-up: an earlier run stored
\* each under the key of the pair it had asked the provider about
InitProduced(f) ==
    LET c == LoadCache(f)
    IN  {<<"a", "pl", c[k]>> : k \in DOMAIN c \cap {CacheKey("a", "pl")}}

NoLookup == [op |-> "none", spec_id |-> "", found |-> FALSE, ret |-> NoSpec, reads |-> 0]
NoDoc == [readable |-> FALSE, brands |-> <<>>]
EmptyDoc == [readable |-> TRUE, brands |-> <<>>]

\* __init__: self.cache = self._load_cache(); self.spec_data_cache = {}
InitTranslation ==
    /\ file \in InitFiles
    /\ cache = LoadCache(file)
    /\ crashed = FALSE
    /\ last = NoCall
    /\ batch = IdleBatch
    /\ committed = {}
    /\ produced = InitProduced(file)

Init ==
    /\ InitTranslation
    /\ doc = NoDoc
    /\ memo = EmptyMap
    /\ lookup = NoLookup
    /\ run = IdleRun

----------------------------------------------------------------------------
(* Actions of the translation cache *)

\* a caller invokes translate_text(text, dest_lang, max_retries)
TranslateTextCall ==
    /\ ~crashed
    /\ batch.pc # "running"
    /\ \E text \in Texts, dest_lang \in Langs, max_retries \in 0..MaxRetries :
         \E results \in ProviderRuns(cache, text, dest_lang, max_retries) :
            \E disk \in DiskRuns(results) :
               LET o == TranslateText(cache, file, text, dest_lang, max_retries, results, disk)
               IN  /\ cache' = o.cache
                   /\ file' = o.file
                   /\ last' = Observe(text, dest_lang, max_retries, o)
                   /\ committed' = Commit(o)
                   /\ produced' = Produce(text, dest_lang, results, o)
    /\ batch' = IdleBatch
    /\ UNCHANGED <<crashed, catVars>>

\* a caller invokes batch_translate(texts, dest_lang)
BatchTranslateCall ==
    /\ ~crashed
    /\ batch.pc # "running"
    /\ \E texts \in SeqsUpTo(Texts, MaxBatch), dest_lang \in Langs :
         batch' = [pc |-> "running", texts |-> texts, dest_lang |-> dest_lang,
                   out |-> <<>>, exhausted |-> <<>>]
    /\ last' = NoCall
    /\ UNCHANGED <<cache, file, crashed, committed, produced, catVars>>

\* the comprehension handles its next element with translate_text
BatchTranslateStep ==
    /\ ~crashed
    /\ batch.pc = "running"
    /\ ~BatchDone(batch)
    /\ \E results \in ProviderRuns(cache, batch.texts[BatchIndex(batch)],
                                   batch.dest_lang, DefaultMaxRetries) :
       \E disk \in DiskRuns(results) :
         LET text == batch.texts[BatchIndex(batch)]
             o == TranslateText(cache, file, text, batch.dest_lang,
                                DefaultMaxRetries, results, disk)
         IN  /\ cache' = o.cache
             /\ file' = o.file
             /\ last' = Observe(text, batch.dest_lang, DefaultMaxRetries, o)
             /\ committed' = Commit(o)
             /\ produced' = Produce(text, batch.dest_lang, results, o)
             /\ batch' = [batch EXCEPT
                            !.out = BatchCollect(@, o.ret),
                            !.exhausted = Append(@, o.failures = DefaultMaxRetries)]
    /\ UNCHANGED <<crashed, catVars>>

\* batch_translate returns the list
BatchTranslateReturn ==
    /\ ~crashed
    /\ batch.pc = "running"
    /\ BatchDone(batch)
    /\ batch' = IdleBatch
    /\ UNCHANGED <<cache, file, crashed, last, committed, produced, catVars>>

\* the process is interrupted between two calls
InterruptIdle ==
    /\ ~crashed
    /\ crashed' = TRUE
    /\ last' = NoCall
    /\ batch' = IdleBatch
    /\ UNCHANGED <<cache, file, committed, produced, catVars>>

\* the process is interrupted inside a translate_text call that found no entry
InterruptTranslate ==
    /\ ~crashed
    /\ \/ batch.pc # "running"
       \/ ~BatchDone(batch)
    /\ \E text \in Texts, dest_lang \in Langs, translated \in Translations,
          point \in InterruptPoints :
         LET key == CacheKey(text, dest_lang)
         IN  /\ batch.pc = "running" =>
                   /\ text = batch.texts[BatchIndex(batch)]
                   /\ dest_lang = batch.dest_lang
             /\ ~IsSentinel(text)
             /\ ~CacheHit(cache, key)
             /\ cache' = InFlightCache(cache, key, translated, point)
             /\ file' = InFlightFile(cache, file, key, translated, point)
             /\ produced' = IF point = "provider" THEN produced
                            ELSE produced \cup {<<text, dest_lang, translated>>}
    /\ crashed' = TRUE
    /\ last' = NoCall
    /\ batch' = IdleBatch
    /\ UNCHANGED <<committed, catVars>>

Next ==
    \/ TranslateTextCall
    \/ BatchTranslateCall
    \/ BatchTranslateStep
    \/ BatchTranslateReturn
    \/ InterruptIdle
    \/ InterruptTranslate

Spec == Init /\ [][Next]_vars

----------------------------------------------------------------------------
(* The catalog document on disk, edited from outside the program *)

LastBrand(d) == d.brands[Len(d.brands)]
LastSeries(d) == LastBrand(d).series[Len(LastBrand(d).series)]

\* spec ids are unique in a document: the ids no model of d reads as
FreshIds(d) ==
    LET dm == DictModels(d.brands)
    IN  {id \in IdValues :
           \A k \in 1..Len(dm) : PyStr(dm[k].model.spec_id) # PyStr(id)}

\* a brand is appended to the document
DocAddBrand(limit) ==
    /\ run.pc = "idle"
    /\ EntryCount(doc.brands) < limit
    /\ \E kind \in BrandKinds :
         doc' = [doc EXCEPT !.brands = Append(@, Brand(Len(@) + 1, kind))]
    /\ lookup' = NoLookup
    /\ UNCHANGED <<transVars, memo, run>>

\* a series is appended to the last brand
DocAddSeries(limit) ==
    /\ run.pc = "idle"
    /\ EntryCount(doc.brands) < limit
    /\ doc.brands # <<>>
    /\ IsDict(LastBrand(doc).kind)
    /\ \E kind \in SeriesKinds :
         doc' = [doc EXCEPT !.brands[Len(doc.brands)].series =
                               Append(@, Series(Len(@) + 1, kind))]
    /\ lookup' = NoLookup
    /\ UNCHANGED <<transVars, memo, run>>

\* a model is appended to the last series of the last brand
DocAddModel(limit) ==
    /\ run.pc = "idle"
    /\ EntryCount(doc.brands) < limit
    /\ doc.brands # <<>>
    /\ LastBrand(doc).series # <<>>
    /\ IsDict(LastSeries(doc).kind)
    /\ \E m \in {Model(Len(LastSeries(doc).models) + 1, "dict", id) : id \in FreshIds(doc)}
                \cup {Model(Len(LastSeries(doc).models) + 1, "scalar", JNone)} :
         doc' = [doc EXCEPT
                   !.brands[Len(doc.brands)].series[Len(LastBrand(doc).series)].models =
                       Append(@, m)]
    /\ lookup' = NoLookup
    /\ UNCHANGED <<transVars, memo, run>>

\* the document is replaced by an empty catalog
DocClear ==
    /\ run.pc = "idle"
    /\ doc.brands # <<>>
    /\ doc' = [doc EXCEPT !.brands = <<>>]
    /\ lookup' = NoLookup
    /\ UNCHANGED <<transVars, memo, run>>

\* the document becomes unreadable (missing, not JSON) or readable again
DocToggle ==
    /\ doc' = [doc EXCEPT !.readable = ~@]
    /\ lookup' = NoLookup
    /\ UNCHANGED <<transVars, memo, run>>

----------------------------------------------------------------------------
(* Actions of the lookup and the export *)

\* a caller invokes load_spec_data(spec_id)
LoadSpecDataCall ==
    /\ run.pc = "idle"
    /\ \E spec_id \in QueryIds :
         LET l == LoadSpecData(memo, doc, spec_id)
         IN  /\ memo' = l.memo
             /\ lookup' = ObserveLookup(spec_id, l)
    /\ UNCHANGED <<transVars, doc, run>>

\* export_all_specs starts: it reads and parses the document
ExportAllStart ==
    /\ run.pc = "idle"
    /\ run' = IF doc.readable
              THEN [IdleRun EXCEPT !.pc = "walking", !.data = doc.brands,
                                   !.work = SeriesWalk(doc.brands)]
              ELSE Abort(IdleRun, "read")
    /\ UNCHANGED <<transVars, doc, memo, lookup>>

\* one pass of the series loop
ExportAllSeries ==
    /\ run.pc = "walking"
    /\ run.i <= Len(run.work)
    /\ \E translation \in TranslationOutcomes, output \in OutputOutcomes :
         LET p == SeriesPass(run, memo, doc, translation, output)
         IN  /\ run' = p.run
             /\ memo' = p.memo
             /\ lookup' = p.lookup
    /\ UNCHANGED <<transVars, doc>>

\* after the loops: export_index_html(specs)
ExportAllIndex ==
    /\ run.pc = "walking"
    /\ run.i > Len(run.work)
    /\ \E output \in OutputOutcomes :
         run' = IF output = "ok"
                THEN [run EXCEPT !.pc = "done", !.index = TRUE]
                ELSE Abort(run, "index")
    /\ UNCHANGED <<transVars, doc, memo, lookup>>

InitCatalog ==
    /\ cache = EmptyMap
    /\ file = MissingFile
    /\ crashed = FALSE
    /\ last = NoCall
    /\ batch = IdleBatch
    /\ committed = {}
    /\ produced = InitProduced(file)
    /\ doc = EmptyDoc
    /\ memo = EmptyMap
    /\ lookup = NoLookup
    /\ run = IdleRun

NextCatalog ==
    \/ DocAddBrand(MaxLookupEntries)
    \/ DocAddSeries(MaxLookupEntries)
    \/ DocAddModel(MaxLookupEntries)
    \/ DocClear
    \/ DocToggle
    \/ LoadSpecDataCall

\* the lookup and its memo, with the document changing between calls
SpecCatalog == InitCatalog /\ [][NextCatalog]_vars

NextExport ==
    \/ DocAddBrand(MaxEntries)
    \/ DocAddSeries(MaxEntries)
    \/ DocAddModel(MaxEntries)
    \/ DocToggle
    \/ ExportAllStart
    \/ ExportAllSeries
    \/ ExportAllIndex

\* main(): one export_all_specs run over the document found on disk
SpecExport == InitCatalog /\ [][NextExport]_vars

----------------------------------------------------------------------------
(* Properties *)

\* a step in which translate_text ran (directly or for a batch element):
\* it leaves its observation in last; returning from batch_translate does not
CallStep == last'.op = "translate_text" /\ ~(batch.pc = "running" /\ batch'.pc = "idle")

LastKey(l) == CacheKey(l.text, l.dest_lang)

\* C1: once a key is in the in-memory cache, no step removes it or changes
\* its value, whatever the provider does in translate_text and batch_translate
C1_CacheEntriesStable ==
    [][\A k \in DOMAIN cache : k \in DOMAIN cache' /\ cache'[k] = cache[k]]_vars

\* a translation was stored while another key was already cached
C1_Witness ==
    /\ last.op = "translate_text"
    /\ last.writes = 1
    /\ Cardinality(DOMAIN cache) >= 2

\* C2: a call for a text that is not empty, not 'N/A' and not cached, with
\* max_retries >= 1 and a provider that fails on every call, invokes the
\* provider exactly max_retries times and returns the original text; the key
\* is not cached afterwards and the cache file is not written
C2_RetryExhaustion ==
    [][(/\ CallStep
        /\ last'.text \notin {"", "N/A"}
        /\ LastKey(last') \notin DOMAIN cache
        /\ last'.max_retries >= 1
        /\ last'.failures = last'.calls)
       => (/\ last'.calls = last'.max_retries
           /\ last'.ret = last'.text
           /\ LastKey(last') \notin DOMAIN cache'
           /\ last'.writes = 0
           /\ file' = file)]_vars

\* the provider failed on each of two or more attempts
C2_Witness ==
    /\ last.op = "translate_text"
    /\ last.max_retries >= 2
    /\ last.calls = last.max_retries
    /\ last.failures = last.calls
    /\ last.ret = last.text
    /\ LastKey(last) \notin DOMAIN cache

\* C3: two consecutive translate_text calls with the same arguments and a
\* provider that does not fail return the same result, with at most one
\* provider call between them; the second makes no provider call, writes
\* nothing and changes neither the cache nor its file
C3_Idempotent ==
    [][(/\ CallStep
        /\ last.op = "translate_text"
        /\ last'.text = last.text
        /\ last'.dest_lang = last.dest_lang
        /\ last'.max_retries = last.max_retries
        /\ last.failures = 0
        /\ last'.failures = 0)
       => (/\ last'.ret = last.ret
           /\ last.calls + last'.calls <= 1
           /\ last'.calls = 0
           /\ last'.writes = 0
           /\ cache' = cache
           /\ file' = file)]_vars

\* a batch of the same text twice: the first element went to the provider,
\* the second was answered from the cache
C3_Witness ==
    /\ batch.pc = "running"
    /\ batch.texts = <<"a_b", "a_b">>
    /\ batch.dest_lang = "b_pl"
    /\ Len(batch.out) = 2
    /\ batch.out[1] \in Translations
    /\ batch.out[2] = batch.out[1]
    /\ last.calls = 0

\* C4: for a text that is empty or 'N/A', translate_text returns the text,
\* makes no provider call and leaves the cache and its file as they were
C4_SentinelPassThrough ==
    [][(CallStep /\ last'.text \in {"", "N/A"})
       => (/\ last'.ret = last'.text
           /\ last'.calls = 0
           /\ last'.writes = 0
           /\ cache' = cache
           /\ file' = file)]_vars

\* 'N/A' was passed through while the cache held entries
C4_Witness ==
    /\ last.op = "translate_text"
    /\ last.text = "N/A"
    /\ last.ret = "N/A"
    /\ last.max_retries >= 1
    /\ DOMAIN cache # {}

\* C5: after an interruption, every entry that a completed translate_text
\* call had persisted is still in the cache file
C5_CommittedSurviveInterrupt ==
    crashed => \A e \in committed :
                  /\ file.state = "valid"
                  /\ e[1] \in DOMAIN file.data
                  /\ file.data[e[1]] = e[2]

\* C6: a call that reaches _save_cache returns the provider's text and
\* leaves it in the in-memory cache whether or not the write succeeds; a
\* cached key is answered without the provider; every translation of a new
\* key attempts the write, and a write that succeeds leaves the whole
\* in-memory cache in the file, entries of earlier failed writes included
C6_WriteFailureTolerated ==
    [][CallStep =>
         (/\ last'.writes = 1 =>
               /\ last'.ret \in Translations
               /\ LastKey(last') \in DOMAIN cache'
               /\ cache'[LastKey(last')] = last'.ret
               /\ last'.disk = "ok" =>
                     /\ file' = ValidFile(cache')
                     /\ \A k \in DOMAIN cache : k \in DOMAIN file'.data
          /\ (last'.text \notin {"", "N/A"} /\ LastKey(last') \in DOMAIN cache) =>
               /\ last'.calls = 0
               /\ last'.ret = cache[LastKey(last')]
          /\ (LastKey(last') \notin DOMAIN cache /\ LastKey(last') \in DOMAIN cache') =>
               last'.writes = 1)]_vars

\* the provider answered, the write failed, and the entry is in memory only
C6_Witness ==
    /\ last.op = "translate_text"
    /\ last.writes = 1
    /\ last.disk = "write_fails"
    /\ last.ret \in Translations
    /\ LastKey(last) \in DOMAIN cache
    /\ cache[LastKey(last)] = last.ret
    /\ file.state = "corrupt"
    /\ Cardinality(DOMAIN cache) >= 2

\* C7: a finished export_all_specs run has collected one summary and made
\* one export_spec_info call for every model that is a structured object,
\* in traversal order
C7_OneExportPerModel ==
    (run.pc = "done" /\ run.index) =>
        /\ run.specs = ExpectedSpecs(run.data)
        /\ run.exports = [k \in 1..Len(run.specs) |-> run.specs[k].specId]

\* C8: a failure in the export of one spec (no data, translation error, a
\* model entry that is not an object, a failed write of its page) does not
\* stop the run: the walk reaches the end and the index page is written,
\* unless writing the index page itself fails
C8_BatchSurvivesSpecFailure ==
    (run.pc = "done" /\ run.error \in {"none", "not_dict", "output"}) =>
        /\ run.i > Len(run.work)
        /\ run.index

\* what the document holds for spec_id: the matching models, in order
DocMatches(d, spec_id) ==
    SelectSeq(DictModels(d.brands), LAMBDA c : PyStr(c.model.spec_id) = spec_id)

\* C9: the memo holds only matched results and never changes an entry; a
\* load_spec_data call for a memoized id returns the memoized record without
\* reading the document; a call that returns no result leaves the memo as it
\* was, and a call for an id that is not memoized reads the document
C9_MemoHoldsOnlyMatches ==
    [][/\ \A id \in DOMAIN memo : id \in DOMAIN memo' /\ memo'[id] = memo[id]
       /\ \A id \in DOMAIN memo' : PyStr(memo'[id].specId) = id
       /\ lookup'.op = "load_spec_data" =>
            /\ lookup'.spec_id \in DOMAIN memo =>
                  /\ lookup'.found
                  /\ lookup'.ret = memo[lookup'.spec_id]
                  /\ lookup'.reads = 0
                  /\ memo' = memo
            /\ lookup'.spec_id \notin DOMAIN memo => lookup'.reads = 1
            /\ ~lookup'.found =>
                  /\ memo' = memo
                  /\ lookup'.ret = NoSpec
            /\ lookup'.found =>
                  /\ lookup'.spec_id \in DOMAIN memo'
                  /\ memo'[lookup'.spec_id] = lookup'.ret]_vars

\* a memoized record was returned, without a read, while the document on
\* disk is readable and holds a different record for that id
C9_Witness ==
    /\ lookup.op = "load_spec_data"
    /\ lookup.found
    /\ lookup.reads = 0
    /\ doc.readable
    /\ DocMatches(doc, lookup.spec_id) # <<>>
    /\ FlatSpec(Head(DocMatches(doc, lookup.spec_id))) # lookup.ret

\* what batch_translate must return for the i-th input
BatchElementOk(b, c, i) ==
    LET text == b.texts[i]
        key == CacheKey(text, b.dest_lang)
    IN  IF text \in {"", "N/A"} THEN b.out[i] = text
        ELSE IF b.exhausted[i] THEN b.out[i] = text
        ELSE key \in DOMAIN c /\ b.out[i] = c[key]

\* C10: the list batch_translate returns has the length and order of its
\* input: the i-th element is the original text where the translation of
\* the i-th input failed on all attempts (or the text is empty or 'N/A'),
\* and the translation held for that input otherwise
C10_BatchInOrder ==
    [][(batch.pc = "running" /\ batch'.pc = "idle" /\ ~crashed') =>
         /\ Len(batch.out) = Len(batch.texts)
         /\ \A i \in 1..Len(batch.texts) : BatchElementOk(batch, cache, i)]_vars

\* a batch of two different texts is complete: the first failed on all
\* attempts, the second was translated
C10_Witness ==
    /\ batch.pc = "running"
    /\ batch.texts = <<"a", "a_b">>
    /\ Len(batch.out) = 2
    /\ batch.exhausted = <<TRUE, FALSE>>
    /\ batch.out[1] = "a"
    /\ batch.out[2] \in Translations

\* C11: starting from an empty cache, a translate_text call answered from the
\* cache for (text, dest_lang) returns only a value the provider produced for
\* that same pair: a translation stored for one pair is never returned for
\* another
C11_HitReturnsOwnTranslation ==
    [][(/\ CallStep
        /\ last'.text \notin {"", "N/A"}
        /\ LastKey(last') \in DOMAIN cache)
       => <<last'.text, last'.dest_lang, last'.ret>> \in produced]_vars

====
